---- MODULE Spec2Model ----
(***************************************************************************)
(* kernel/sched/cpu_idleruntime.c: per-CPU idle/run time accounting that   *)
(* is read and reset through /proc/idleruntime/cpuN/{data,reset} and       *)
(* /proc/idleruntime/all/{data,reset}.                                     *)
(*                                                                         *)
(* The per-CPU variables idlestart, idlestop, idletime and runtime are the *)
(* accounting cell of a CPU; idleruntime_dir is its /proc handle.  In Spec, *)
(* SpecHost and SpecSkew every critical section under idleruntime_lock is  *)
(* one atomic step; the loops of the "all" files take one step per CPU, so *)
(* other CPUs' operations interleave with a scan.  SpecLock follows        *)
(* idleruntime_init and the threads inside the /proc handlers statement by *)
(* statement, with the lock as a variable.                                 *)
(***************************************************************************)
EXTENDS Integers, FiniteSets

\* ---------------------------------------------------------------- bounds
\* number of possible CPUs
NCpu == 2
\* per-CPU clock values range over 0 .. MaxClock
MaxClock == 3
\* largest advance of a clock in one step
MaxTick == 2
\* number of steps of a behaviour
MaxSteps == 5
\* calls of /proc handlers in a behaviour of SpecLock, each by its own thread
MaxOps == 2
\* steps of the clocks in SpecLock
MaxEnv == 1

\* unsigned long long arithmetic, scaled down from 2^64: large enough that
\* no accumulator wraps within MaxSteps steps unless a delta is negative
ULLONG_MOD == 2^16

CPUS == 0 .. (NCpu - 1)

Threads == 1 .. MaxOps

\* a NULL struct proc_dir_entry pointer; directory handles are 1, 2, ...
NULL == 0

VARIABLES
  clock,                \* cpu_clock(cpu)
  curr_idle,            \* is_idle_task(cpu_rq(cpu)->curr)
  cpu_online,           \* CPUs that are up
  idlestart,            \* per-CPU: mark of the idle interval
  idlestop,             \* per-CPU: mark of the run interval
  idletime,             \* per-CPU: accumulated idle time
  runtime,              \* per-CPU: accumulated run time
  root_idleruntime_dir, \* /proc/idleruntime exists
  idleruntime_dir,      \* per-CPU: handle of /proc/idleruntime/cpuN or NULL
  proc_subdir,          \* directories registered under /proc/idleruntime
  scan_show,            \* idleruntime_show_all in progress: loop state
  scan_reset,           \* idleruntime_reset_all in progress: loop state
  last,                 \* the step that led to this state, with what it returned
  obs,                  \* per-CPU history of reads, resets and switches
  joined,               \* per-CPU: CPU_ONLINE seen and no CPU_DEAD since
  ever_left,            \* per-CPU: a CPU_DEAD has removed its /proc files
  steps,                \* steps taken
  idleruntime_lock,     \* per-CPU: the threads that hold idleruntime_lock
  thread,               \* per thread: position in a /proc handler, locals
  init                  \* position of idleruntime_init

cellvars == <<idlestart, idlestop, idletime, runtime>>
procvars == <<root_idleruntime_dir, idleruntime_dir, proc_subdir>>
hostvars == <<clock, curr_idle, cpu_online>>
scanvars == <<scan_show, scan_reset>>
lifevars == <<joined, ever_left>>
lockvars == <<idleruntime_lock, thread, init>>
vars == <<clock, curr_idle, cpu_online, idlestart, idlestop, idletime, runtime,
          root_idleruntime_dir, idleruntime_dir, proc_subdir, scan_show,
          scan_reset, last, obs, joined, ever_left, steps, idleruntime_lock,
          thread, init>>

\* ---------------------------------------------------------------- helpers
Min(a, b) == IF a < b THEN a ELSE b

\* a + b and a - b on unsigned long long
Add(a, b) == (a + b) % ULLONG_MOD
Sub(a, b) == (a - b) % ULLONG_MOD

RECURSIVE SumOver(_, _)
SumOver(S, f) ==
  IF S = {} THEN 0
  ELSE LET c == CHOOSE x \in S : TRUE
       IN  f[c] + SumOver(S \ {c}, f)

\* cpu_clock(cpu)
cpu_clock(cpu) == clock[cpu]

\* for_each_present_cpu: no CPU is physically added or removed, every
\* possible CPU is present
cpu_present_mask == CPUS

\* the step record
Step(op, cpu, ok, idle, run, now) ==
  [op |-> op, cpu |-> cpu, ok |-> ok, idle |-> idle, run |-> run, now |-> now]

\* a step that is not part of a running scan of an "all" file interleaves
\* with it
Interleave(scan) == IF scan.active THEN [scan EXCEPT !.clean = FALSE] ELSE scan

\* ---------------------------------------------------------------- history
ObsInit(now, idle) ==
  [n |-> 0, idle |-> 0, run |-> 0, now |-> 0, pidle |-> 0, prun |-> 0,
   pnow |-> 0, quiet |-> FALSE, sw |-> FALSE, reset_at |-> now,
   reset_idle |-> idle, by_reset |-> FALSE, dirty |-> FALSE, nsw |-> 0,
   sw_at |-> 0]

\* a read of cpu returned (i, r) at clock value t
ObsGet(cpu, i, r, t) ==
  [obs EXCEPT ![cpu] =
     [obs[cpu] EXCEPT !.n = Min(obs[cpu].n + 1, 2),
                      !.pidle = obs[cpu].idle, !.prun = obs[cpu].run,
                      !.pnow = obs[cpu].now,
                      !.idle = i, !.run = r, !.now = t,
                      !.quiet = ~obs[cpu].sw, !.sw = FALSE]]

\* cpu was reset at clock value t
ObsReset(cpu, t) ==
  [obs EXCEPT ![cpu] =
     [ObsInit(t, curr_idle[cpu]) EXCEPT
        !.by_reset = TRUE,
        !.dirty = (idletime[cpu] + runtime[cpu] > 0)]]

\* cpu switched between the idle task and another task at clock value t
ObsSwitch(cpu, t) ==
  [obs EXCEPT ![cpu] =
     [obs[cpu] EXCEPT !.nsw = Min(obs[cpu].nsw + 1, 2),
                      !.sw_at = IF obs[cpu].nsw = 0 THEN t ELSE obs[cpu].sw_at,
                      !.sw = TRUE]]

\* ---------------------------------------------------------------- the cell
\* idleruntime_get: the interval of the state the CPU is in is added to that
\* state's accumulator; the marks are not written
\* mutant: the idle interval is added whatever the CPU runs
get_idletime_always(cpu) ==
  Add(idletime[cpu], Sub(cpu_clock(cpu), idlestart[cpu]))

get_idletime(cpu) ==
  IF curr_idle[cpu]
    THEN Add(idletime[cpu], Sub(cpu_clock(cpu), idlestart[cpu]))
    ELSE idletime[cpu]

\* mutant: = instead of +=
get_runtime_assign(cpu) ==
  IF curr_idle[cpu]
    THEN runtime[cpu]
    ELSE Sub(cpu_clock(cpu), idlestop[cpu])

get_runtime(cpu) ==
  IF curr_idle[cpu]
    THEN runtime[cpu]
    ELSE Add(runtime[cpu], Sub(cpu_clock(cpu), idlestop[cpu]))

idleruntime_get(cpu) ==
  /\ idletime' = [idletime EXCEPT ![cpu] = get_idletime(cpu)]
  /\ runtime' = [runtime EXCEPT ![cpu] = get_runtime(cpu)]
  /\ UNCHANGED <<idlestart, idlestop>>
  /\ obs' = ObsGet(cpu, idletime'[cpu], runtime'[cpu], cpu_clock(cpu))

\* mutant: the cells of all CPUs are reset
idleruntime_reset1_all(cpu) ==
  /\ idletime' = [c \in CPUS |-> 0]
  /\ runtime' = [c \in CPUS |-> 0]
  /\ idlestart' = [c \in CPUS |-> cpu_clock(c)]
  /\ idlestop' = [c \in CPUS |-> cpu_clock(c)]
  /\ obs' = ObsReset(cpu, cpu_clock(cpu))

\* mutant: the marks are not set
idleruntime_reset1_keep_marks(cpu) ==
  /\ idletime' = [idletime EXCEPT ![cpu] = 0]
  /\ runtime' = [runtime EXCEPT ![cpu] = 0]
  /\ UNCHANGED <<idlestart, idlestop>>
  /\ obs' = ObsReset(cpu, cpu_clock(cpu))

\* idleruntime_reset1
idleruntime_reset1(cpu) ==
  /\ idletime' = [idletime EXCEPT ![cpu] = 0]
  /\ runtime' = [runtime EXCEPT ![cpu] = 0]
  /\ idlestart' = [idlestart EXCEPT ![cpu] = cpu_clock(cpu)]
  /\ idlestop' = [idlestop EXCEPT ![cpu] = cpu_clock(cpu)]
  /\ obs' = ObsReset(cpu, cpu_clock(cpu))

\* the scheduler's hook at a switch between the idle task and another task:
\* the interval of the state that ends is added to its accumulator and the
\* mark of the state that begins is set to the time of the switch
sched_switch(cpu) ==
  /\ idletime' = [idletime EXCEPT ![cpu] =
       IF curr_idle[cpu] THEN Add(@, Sub(cpu_clock(cpu), idlestart[cpu])) ELSE @]
  /\ runtime' = [runtime EXCEPT ![cpu] =
       IF curr_idle[cpu] THEN @ ELSE Add(@, Sub(cpu_clock(cpu), idlestop[cpu]))]
  /\ idlestart' = [idlestart EXCEPT ![cpu] =
       IF curr_idle[cpu] THEN @ ELSE cpu_clock(cpu)]
  /\ idlestop' = [idlestop EXCEPT ![cpu] =
       IF curr_idle[cpu] THEN cpu_clock(cpu) ELSE @]
  /\ curr_idle' = [curr_idle EXCEPT ![cpu] = ~curr_idle[cpu]]
  /\ obs' = ObsSwitch(cpu, cpu_clock(cpu))

\* ---------------------------------------------------------------- /proc
\* /proc/idleruntime/cpuN can be opened
Exposed(cpu) == \E e \in proc_subdir : e.cpu = cpu

\* the handle of a new directory entry
NewHandle ==
  CHOOSE h \in 1 .. (Cardinality(proc_subdir) + 1) :
    /\ \A e \in proc_subdir : e.id # h
    /\ \A g \in 1 .. (h - 1) : \E e \in proc_subdir : e.id = g

\* proc_mkdir("cpuN", root_idleruntime_dir): <<handle, directories>>.  It
\* returns NULL when the entry cannot be allocated; for a name that is
\* already registered it warns and, depending on the kernel version, returns
\* NULL or registers a second entry of that name.
proc_mkdir(cpu) ==
  { <<NULL, proc_subdir>>,
    <<NewHandle, proc_subdir \cup {[id |-> NewHandle, cpu |-> cpu]}>> }

\* proc_remove(dir) with its data and reset entries
proc_remove(dir) == {e \in proc_subdir : e.id # dir}

\* mutant: the cell is reset when the CPU comes up
setup_procfiles_fresh(cpu) ==
  /\ \E r \in (IF root_idleruntime_dir THEN proc_mkdir(cpu)
                                         ELSE {<<NULL, proc_subdir>>}) :
       /\ idleruntime_dir' = [idleruntime_dir EXCEPT ![cpu] = r[1]]
       /\ proc_subdir' = r[2]
  /\ idletime' = [idletime EXCEPT ![cpu] = 0]
  /\ runtime' = [runtime EXCEPT ![cpu] = 0]
  /\ idlestart' = [idlestart EXCEPT ![cpu] = cpu_clock(cpu)]
  /\ idlestop' = [idlestop EXCEPT ![cpu] = cpu_clock(cpu)]
  /\ UNCHANGED root_idleruntime_dir

setup_procfiles(cpu) ==
  /\ \E r \in (IF root_idleruntime_dir THEN proc_mkdir(cpu)
                                         ELSE {<<NULL, proc_subdir>>}) :
       /\ idleruntime_dir' = [idleruntime_dir EXCEPT ![cpu] = r[1]]
       /\ proc_subdir' = r[2]
  /\ UNCHANGED <<root_idleruntime_dir, idlestart, idlestop, idletime, runtime>>

\* mutant: the directory is not removed
unset_procfiles_keep_entries(cpu) ==
  /\ IF idleruntime_dir[cpu] # NULL
       THEN /\ proc_subdir' = proc_subdir
            /\ idleruntime_dir' = [idleruntime_dir EXCEPT ![cpu] = NULL]
       ELSE UNCHANGED <<idleruntime_dir, proc_subdir>>
  /\ UNCHANGED <<root_idleruntime_dir, idlestart, idlestop, idletime, runtime>>

\* mutant: the pointer is not cleared
unset_procfiles_stale(cpu) ==
  /\ IF idleruntime_dir[cpu] # NULL
       THEN /\ proc_subdir' = proc_remove(idleruntime_dir[cpu])
            /\ idleruntime_dir' = idleruntime_dir
       ELSE UNCHANGED <<idleruntime_dir, proc_subdir>>
  /\ UNCHANGED <<root_idleruntime_dir, idlestart, idlestop, idletime, runtime>>

unset_procfiles(cpu) ==
  /\ IF idleruntime_dir[cpu] # NULL
       THEN /\ proc_subdir' = proc_remove(idleruntime_dir[cpu])
            /\ idleruntime_dir' = [idleruntime_dir EXCEPT ![cpu] = NULL]
       ELSE UNCHANGED <<idleruntime_dir, proc_subdir>>
  /\ UNCHANGED <<root_idleruntime_dir, idlestart, idlestop, idletime, runtime>>

idleruntime_cpu_callback(action, cpu) ==
  CASE action = "CPU_ONLINE" ->
         /\ setup_procfiles(cpu)
         /\ joined' = [joined EXCEPT ![cpu] = TRUE]
         /\ UNCHANGED ever_left
         /\ last' = Step("online", cpu, idleruntime_dir'[cpu] # NULL, 0, 0, 0)
    [] action = "CPU_DEAD" ->
         /\ unset_procfiles(cpu)
         /\ joined' = [joined EXCEPT ![cpu] = FALSE]
         /\ ever_left' = [ever_left EXCEPT ![cpu] = @ \/ idleruntime_dir[cpu] # NULL]
         /\ last' = Step("dead", cpu, idleruntime_dir[cpu] # NULL, 0, 0, 0)

\* ---------------------------------------------------------------- steps
Tock == steps < MaxSteps /\ steps' = steps + 1 /\ UNCHANGED lockvars

Others == /\ scan_show' = Interleave(scan_show)
          /\ scan_reset' = Interleave(scan_reset)

\* time passes on a CPU
Tick(cpu, d) ==
  /\ Tock
  /\ clock[cpu] + d <= MaxClock
  /\ clock' = [clock EXCEPT ![cpu] = @ + d]
  /\ last' = Step("tick", cpu, TRUE, 0, 0, clock'[cpu])
  /\ Others
  /\ UNCHANGED <<curr_idle, cpu_online, cellvars, procvars, obs, lifevars>>

\* an online CPU switches to or from its idle task
Switch(cpu) ==
  /\ Tock
  /\ cpu \in cpu_online
  /\ sched_switch(cpu)
  /\ last' = Step("switch", cpu, TRUE, 0, 0, cpu_clock(cpu))
  /\ Others
  /\ UNCHANGED <<clock, cpu_online, procvars, lifevars>>

\* read of /proc/idleruntime/cpuN/data: idleruntime_show, or no such file
idleruntime_show(cpu) ==
  /\ Tock
  /\ IF Exposed(cpu)
       THEN /\ idleruntime_get(cpu)
            /\ last' = Step("show", cpu, TRUE, idletime'[cpu], runtime'[cpu],
                            cpu_clock(cpu))
       ELSE /\ UNCHANGED <<cellvars, obs>>
            /\ last' = Step("show", cpu, FALSE, 0, 0, 0)
  /\ Others
  /\ UNCHANGED <<hostvars, procvars, lifevars>>

\* write to /proc/idleruntime/cpuN/reset: idleruntime_reset, or no such file
idleruntime_reset(cpu) ==
  /\ Tock
  /\ IF Exposed(cpu)
       THEN /\ idleruntime_reset1(cpu)
            /\ last' = Step("reset", cpu, TRUE, 0, 0, cpu_clock(cpu))
       ELSE /\ UNCHANGED <<cellvars, obs>>
            /\ last' = Step("reset", cpu, FALSE, 0, 0, 0)
  /\ Others
  /\ UNCHANGED <<hostvars, procvars, lifevars>>

\* the CPUs a for_each_present_cpu loop has still to visit
Remaining(scan) ==
  {c \in cpu_present_mask : scan.active => c > scan.cpu}

FirstOf(S) == CHOOSE c \in S : \A d \in S : c <= d

\* history of a loop: the CPUs that had got their CPU_ONLINE and not their
\* CPU_DEAD when the loop started, and the CPUs the loop has visited
Members(scan) ==
  IF scan.active THEN scan.members ELSE {c \in CPUS : joined[c]}

Visited(scan) == IF scan.active THEN scan.visited ELSE {}

\* /proc/idleruntime/all exists
AllFiles == root_idleruntime_dir /\ NCpu > 1

\* read of /proc/idleruntime/all/data: one iteration of idleruntime_show_all;
\* the last one prints the totals
idleruntime_show_all ==
  /\ Tock
  /\ AllFiles
  /\ LET cpu == FirstOf(Remaining(scan_show))
         more == \E c \in cpu_present_mask : c > cpu
         ti == IF scan_show.active THEN scan_show.total_idletime ELSE 0
         tr == IF scan_show.active THEN scan_show.total_runtime ELSE 0
     IN  /\ idleruntime_get(cpu)
         /\ scan_show' = [active |-> more, cpu |-> cpu,
                          total_idletime |-> Add(ti, idletime'[cpu]),
                          total_runtime |-> Add(tr, runtime'[cpu]),
                          clean |-> (scan_show.active => scan_show.clean),
                          members |-> Members(scan_show),
                          visited |-> Visited(scan_show) \cup {cpu}]
         /\ last' = Step(IF more THEN "show_all_cpu" ELSE "show_all", cpu, TRUE,
                         idletime'[cpu], runtime'[cpu], cpu_clock(cpu))
  /\ scan_reset' = Interleave(scan_reset)
  /\ UNCHANGED <<hostvars, procvars, lifevars>>

\* write to /proc/idleruntime/all/reset: one iteration of
\* idleruntime_reset_all
idleruntime_reset_all ==
  /\ Tock
  /\ AllFiles
  /\ LET cpu == FirstOf(Remaining(scan_reset))
         more == \E c \in cpu_present_mask : c > cpu
     IN  /\ idleruntime_reset1(cpu)
         /\ scan_reset' = [active |-> more, cpu |-> cpu,
                           clean |-> (scan_reset.active => scan_reset.clean),
                           members |-> Members(scan_reset),
                           visited |-> Visited(scan_reset) \cup {cpu}]
         /\ last' = Step(IF more THEN "reset_all_cpu" ELSE "reset_all", cpu,
                         TRUE, 0, 0, cpu_clock(cpu))
  /\ scan_show' = Interleave(scan_show)
  /\ UNCHANGED <<hostvars, procvars, lifevars>>

\* the notifier chain runs only if idleruntime_init registered the notifier
Notified(action, cpu) ==
  IF root_idleruntime_dir
    THEN idleruntime_cpu_callback(action, cpu)
    ELSE /\ UNCHANGED <<cellvars, procvars, lifevars>>
         /\ last' = Step("none", cpu, FALSE, 0, 0, 0)

\* the host brings an offline CPU up: CPU_ONLINE
cpu_up(cpu) ==
  /\ Tock
  /\ cpu \in cpu_present_mask \ cpu_online
  /\ cpu_online' = cpu_online \cup {cpu}
  /\ Notified("CPU_ONLINE", cpu)
  /\ Others
  /\ UNCHANGED <<clock, curr_idle, obs>>

\* the host takes an online CPU down, once it runs its idle task and unless
\* it is the last one: CPU_DEAD
cpu_down(cpu) ==
  /\ Tock
  /\ cpu \in cpu_online
  /\ Cardinality(cpu_online) > 1
  /\ curr_idle[cpu]
  /\ cpu_online' = cpu_online \ {cpu}
  /\ Notified("CPU_DEAD", cpu)
  /\ Others
  /\ UNCHANGED <<clock, curr_idle, obs>>

\* a notification the hotplug core does not send: CPU_ONLINE for a CPU that
\* is up, CPU_DEAD for one that is down
Renotify(action, cpu) ==
  /\ Tock
  /\ root_idleruntime_dir
  /\ (action = "CPU_ONLINE") = (cpu \in cpu_online)
  /\ idleruntime_cpu_callback(action, cpu)
  /\ Others
  /\ UNCHANGED <<hostvars, obs>>

\* ---------------------------------------------------------------- init
\* a thread before its call of a /proc handler
NoCall ==
  [pc |-> "idle", op |-> "none", cpu |-> 0, idletime |-> 0, runtime |-> 0,
   total_idletime |-> 0, total_runtime |-> 0]

\* a thread after the return of its handler
Returned == [NoCall EXCEPT !.pc = "returned"]

\* the state when idleruntime_init returns: the marks of every possible CPU
\* hold its clock, the boot CPU 0 runs the init thread and has its /proc
\* files if they could be created; if /proc/idleruntime could not be
\* created nothing is set up
idleruntime_init ==
  /\ root_idleruntime_dir \in BOOLEAN
  /\ idlestart = [c \in CPUS |-> IF root_idleruntime_dir THEN cpu_clock(c) ELSE 0]
  /\ idlestop = idlestart
  /\ idletime = [c \in CPUS |-> 0]
  /\ runtime = [c \in CPUS |-> 0]
  /\ \E h \in (IF root_idleruntime_dir THEN {NULL, 1} ELSE {NULL}) :
       /\ idleruntime_dir = [c \in CPUS |-> IF c = 0 THEN h ELSE NULL]
       /\ proc_subdir = IF h = NULL THEN {} ELSE {[id |-> h, cpu |-> 0]}

Init ==
  /\ clock = [c \in CPUS |-> 0]
  /\ curr_idle = [c \in CPUS |-> c # 0]
  /\ cpu_online = {0}
  /\ idleruntime_init
  /\ scan_show = [active |-> FALSE, cpu |-> 0, total_idletime |-> 0,
                  total_runtime |-> 0, clean |-> FALSE, members |-> {},
                  visited |-> {}]
  /\ scan_reset = [active |-> FALSE, cpu |-> 0, clean |-> FALSE,
                   members |-> {}, visited |-> {}]
  /\ last = Step("init", 0, root_idleruntime_dir, 0, 0, 0)
  /\ obs = [c \in CPUS |-> ObsInit(idlestart[c], curr_idle[c])]
  /\ joined = [c \in CPUS |-> c = 0 /\ root_idleruntime_dir]
  /\ ever_left = [c \in CPUS |-> FALSE]
  /\ steps = 0
  /\ idleruntime_lock = [c \in CPUS |-> {}]
  /\ thread = [t \in Threads |-> NoCall]
  /\ init = [pc |-> "done", cpu |-> NCpu]

Next ==
  \/ \E cpu \in CPUS, d \in 1 .. MaxTick : Tick(cpu, d)
  \/ \E cpu \in CPUS : Switch(cpu)
  \/ \E cpu \in CPUS : idleruntime_show(cpu)
  \/ \E cpu \in CPUS : idleruntime_reset(cpu)
  \/ idleruntime_show_all
  \/ idleruntime_reset_all
  \/ \E cpu \in CPUS : cpu_up(cpu)
  \/ \E cpu \in CPUS : cpu_down(cpu)

Spec == Init /\ [][Next]_vars

\* the notifier called with any event for any CPU
NextHost ==
  \/ Next
  \/ \E action \in {"CPU_ONLINE", "CPU_DEAD"}, cpu \in CPUS : Renotify(action, cpu)

SpecHost == Init /\ [][NextHost]_vars

\* the clock of a CPU read lower than before: cpu_clock called for another
\* CPU is not strictly monotonic
ClockBack(cpu) ==
  /\ Tock
  /\ clock[cpu] > 0
  /\ clock' = [clock EXCEPT ![cpu] = @ - 1]
  /\ last' = Step("skew", cpu, TRUE, 0, 0, clock'[cpu])
  /\ Others
  /\ UNCHANGED <<curr_idle, cpu_online, cellvars, procvars, obs, lifevars>>

NextSkew ==
  \/ Next
  \/ \E cpu \in CPUS : ClockBack(cpu)

SpecSkew == Init /\ [][NextSkew]_vars

\* ---------------------------------------------------------------- lock level
\* mutant: the lock is taken without waiting for its holder
raw_spin_lock_nowait(t, cpu) ==
  idleruntime_lock' = [idleruntime_lock EXCEPT ![cpu] = @ \cup {t}]

\* raw_spin_lock_irqsave(&per_cpu(idleruntime_lock, cpu), flags) by thread t
raw_spin_lock_irqsave(t, cpu) ==
  /\ idleruntime_lock[cpu] = {}
  /\ idleruntime_lock' = [idleruntime_lock EXCEPT ![cpu] = @ \cup {t}]

\* mutant: the lock is not released
raw_spin_unlock_skipped(t, cpu) ==
  idleruntime_lock' = idleruntime_lock

\* raw_spin_unlock_irqrestore(&per_cpu(idleruntime_lock, cpu), flags)
raw_spin_unlock_irqrestore(t, cpu) ==
  idleruntime_lock' = [idleruntime_lock EXCEPT ![cpu] = @ \ {t}]

LockFrame == UNCHANGED <<hostvars, procvars, scanvars, last, lifevars, steps>>

\* the handlers that call idleruntime_get
ReadOps == {"show", "show_all"}

\* the state when idleruntime_init enters its loop over the possible CPUs:
\* /proc/idleruntime has been created, the per-CPU variables are zero
InitLock ==
  /\ clock = [c \in CPUS |-> 0]
  /\ curr_idle = [c \in CPUS |-> c # 0]
  /\ cpu_online = {0}
  /\ root_idleruntime_dir = TRUE
  /\ idlestart = [c \in CPUS |-> 0]
  /\ idlestop = [c \in CPUS |-> 0]
  /\ idletime = [c \in CPUS |-> 0]
  /\ runtime = [c \in CPUS |-> 0]
  /\ idleruntime_dir = [c \in CPUS |-> NULL]
  /\ proc_subdir = {}
  /\ scan_show = [active |-> FALSE, cpu |-> 0, total_idletime |-> 0,
                  total_runtime |-> 0, clean |-> FALSE, members |-> {},
                  visited |-> {}]
  /\ scan_reset = [active |-> FALSE, cpu |-> 0, clean |-> FALSE,
                   members |-> {}, visited |-> {}]
  /\ last = Step("boot", 0, TRUE, 0, 0, 0)
  /\ obs = [c \in CPUS |-> ObsInit(0, curr_idle[c])]
  /\ joined = [c \in CPUS |-> FALSE]
  /\ ever_left = [c \in CPUS |-> FALSE]
  /\ steps = 0
  /\ idleruntime_lock = [c \in CPUS |-> {}]
  /\ thread = [t \in Threads |-> NoCall]
  /\ init = [pc |-> "loop", cpu |-> 0]

\* idleruntime_init: one iteration of the loop over the possible CPUs
init_loop ==
  /\ init.pc = "loop"
  /\ LET cpu == init.cpu
     IN  /\ idlestart' = [idlestart EXCEPT ![cpu] = cpu_clock(cpu)]
         /\ idlestop' = [idlestop EXCEPT ![cpu] = cpu_clock(cpu)]
         /\ idleruntime_lock' = [idleruntime_lock EXCEPT ![cpu] = {}]
         /\ init' = IF cpu + 1 < NCpu THEN [init EXCEPT !.cpu = cpu + 1]
                                      ELSE [pc |-> "setup", cpu |-> NCpu]
  /\ UNCHANGED <<idletime, runtime, obs, thread>>
  /\ LockFrame

\* idleruntime_init after the loop: the files of CPU 0, the "all" files, the
\* notifier
init_setup ==
  /\ init.pc = "setup"
  /\ setup_procfiles(0)
  /\ joined' = [joined EXCEPT ![0] = TRUE]
  /\ last' = Step("init", 0, TRUE, 0, 0, 0)
  /\ init' = [init EXCEPT !.pc = "done"]
  /\ UNCHANGED <<hostvars, scanvars, obs, ever_left, steps, idleruntime_lock,
                 thread>>

\* thread t opens a /proc file and enters its handler, up to the call of
\* idleruntime_get or idleruntime_reset1 for the first CPU; the threads are
\* interchangeable and make their calls in the order of their numbers
Call(t, op, cpu) ==
  /\ init.pc = "done"
  /\ thread[t].pc = "idle"
  /\ \A u \in Threads : u < t => thread[u].pc # "idle"
  /\ IF op \in {"show", "reset"}
       THEN Exposed(cpu)
       ELSE AllFiles /\ cpu = FirstOf(cpu_present_mask)
  /\ thread' = [thread EXCEPT ![t] =
                  [NoCall EXCEPT !.pc = "lock", !.op = op, !.cpu = cpu]]
  /\ UNCHANGED <<cellvars, obs, idleruntime_lock, init>>
  /\ LockFrame

\* idleruntime_get line 42, idleruntime_reset1 line 101
Lock(t) ==
  /\ thread[t].pc = "lock"
  /\ raw_spin_lock_irqsave(t, thread[t].cpu)
  /\ thread' = [thread EXCEPT ![t].pc =
                  IF thread[t].op \in ReadOps THEN "update" ELSE "body"]
  /\ UNCHANGED <<cellvars, obs, init>>
  /\ LockFrame

\* idleruntime_get lines 45-49
GetUpdate(t) ==
  /\ thread[t].pc = "update"
  /\ idletime' = [idletime EXCEPT ![thread[t].cpu] = get_idletime(thread[t].cpu)]
  /\ runtime' = [runtime EXCEPT ![thread[t].cpu] = get_runtime(thread[t].cpu)]
  /\ thread' = [thread EXCEPT ![t].pc = "out_idle"]
  /\ UNCHANGED <<idlestart, idlestop, obs, idleruntime_lock, init>>
  /\ LockFrame

\* idleruntime_get line 51
GetOutIdle(t) ==
  /\ thread[t].pc = "out_idle"
  /\ thread' = [thread EXCEPT ![t].pc = "out_run",
                              ![t].idletime = idletime[thread[t].cpu]]
  /\ UNCHANGED <<cellvars, obs, idleruntime_lock, init>>
  /\ LockFrame

\* idleruntime_get line 52
GetOutRun(t) ==
  /\ thread[t].pc = "out_run"
  /\ thread' = [thread EXCEPT ![t].pc = "unlock",
                              ![t].runtime = runtime[thread[t].cpu]]
  /\ UNCHANGED <<cellvars, obs, idleruntime_lock, init>>
  /\ LockFrame

\* idleruntime_reset1 lines 102-103
ResetBody(t) ==
  /\ thread[t].pc = "body"
  /\ idletime' = [idletime EXCEPT ![thread[t].cpu] = 0]
  /\ runtime' = [runtime EXCEPT ![thread[t].cpu] = 0]
  /\ idlestart' = [idlestart EXCEPT ![thread[t].cpu] = cpu_clock(thread[t].cpu)]
  /\ idlestop' = [idlestop EXCEPT ![thread[t].cpu] = cpu_clock(thread[t].cpu)]
  /\ thread' = [thread EXCEPT ![t].pc = "unlock"]
  /\ UNCHANGED <<obs, idleruntime_lock, init>>
  /\ LockFrame

\* idleruntime_get line 54, idleruntime_reset1 line 104, and the handler up
\* to its return or to the call for the next CPU of its loop
Unlock(t) ==
  /\ thread[t].pc = "unlock"
  /\ raw_spin_unlock_irqrestore(t, thread[t].cpu)
  /\ LET th == thread[t]
         rest == Remaining([active |-> TRUE, cpu |-> th.cpu])
     IN  thread' = [thread EXCEPT ![t] =
           IF th.op \in {"show", "reset"} \/ rest = {}
             THEN Returned
             ELSE [th EXCEPT
                     !.pc = "lock",
                     !.cpu = FirstOf(rest),
                     !.total_idletime = Add(@, th.idletime),
                     !.total_runtime = Add(@, th.runtime)]]
  /\ UNCHANGED <<cellvars, obs, init>>
  /\ LockFrame

\* the steps of a thread inside a handler
Run(t) ==
  \/ Lock(t)
  \/ GetUpdate(t)
  \/ GetOutIdle(t)
  \/ GetOutRun(t)
  \/ ResetBody(t)
  \/ Unlock(t)

\* time passes between the calls of the handlers: the clocks of all CPUs
\* advance by d
LockTick(d) ==
  /\ steps < MaxEnv
  /\ \A t \in Threads : thread[t].pc \in {"idle", "returned"}
  /\ \A c \in CPUS : clock[c] + d <= MaxClock
  /\ clock' = [c \in CPUS |-> clock[c] + d]
  /\ steps' = steps + 1
  /\ UNCHANGED <<curr_idle, cpu_online, cellvars, procvars, scanvars, last,
                 obs, lifevars, lockvars>>

\* idleruntime_init and the threads
NextCalls ==
  \/ init_loop
  \/ init_setup
  \/ \E t \in Threads, op \in {"show", "reset", "show_all", "reset_all"},
        cpu \in CPUS : Call(t, op, cpu)
  \/ \E t \in Threads : Lock(t)
  \/ \E t \in Threads : GetUpdate(t)
  \/ \E t \in Threads : GetOutIdle(t)
  \/ \E t \in Threads : GetOutRun(t)
  \/ \E t \in Threads : ResetBody(t)
  \/ \E t \in Threads : Unlock(t)

NextLock ==
  \/ NextCalls
  \/ \E d \in 1 .. MaxTick : LockTick(d)

SpecLock == InitLock /\ [][NextLock]_vars

\* raw spinlocks are taken with interrupts off: a holder runs on to its
\* unlock, and a waiter gets the lock once it stays free
SpecLockFair ==
  /\ InitLock
  /\ [][NextCalls]_vars
  /\ WF_vars(init_loop \/ init_setup)
  /\ \A t \in Threads : WF_vars(Run(t))

\* ---------------------------------------------------------------- claims
\* the step that led here was an idleruntime_get of cpu
IsGet(cpu) ==
  /\ last.op \in {"show", "show_all_cpu", "show_all"}
  /\ last.ok
  /\ last.cpu = cpu

\* the step that led here was an idleruntime_reset1 of cpu
IsReset(cpu) ==
  /\ last.op \in {"reset", "reset_all_cpu", "reset_all"}
  /\ last.ok
  /\ last.cpu = cpu

\* C1: between resets, a read of a CPU returns an idle total and a run total
\* that are not smaller than those the read before it returned (and so, by
\* transitivity, than those of every earlier read), whatever switches, ticks
\* and other CPUs' operations came between.
C1_Monotonic ==
  \A c \in CPUS :
    obs[c].n = 2 => /\ obs[c].idle >= obs[c].pidle
                    /\ obs[c].run >= obs[c].prun

\* two reads of a CPU with a switch between them, and a total that grew
C1_Witness ==
  \E c \in CPUS :
    /\ IsGet(c)
    /\ obs[c].n = 2
    /\ ~obs[c].quiet
    /\ obs[c].idle + obs[c].run > obs[c].pidle + obs[c].prun

\* C2: two successive reads of a CPU at now1 <= now2 with neither a reset nor
\* a switch between them differ, idle and run totals together, by now2 - now1.
C2_Conservation ==
  \A c \in CPUS :
    (obs[c].n = 2 /\ obs[c].quiet) =>
      (obs[c].idle - obs[c].pidle) + (obs[c].run - obs[c].prun)
        = obs[c].now - obs[c].pnow

\* C3: right after a read of a CPU, the totals it returned add up to the
\* clock value it sampled minus the clock value at the CPU's last reset (or
\* at initialization).
C3_SumInvariant ==
  \A c \in CPUS :
    IsGet(c) => last.idle + last.run = last.now - obs[c].reset_at

\* C4: a cell is created or reset at t0 with the CPU idle, the CPU switches
\* to a task at t1 > t0 and stays there, the first read comes at t2 > t1:
\* the read returns idle total t1 - t0 and run total t2 - t1.
C4_TransitionSplit ==
  \A c \in CPUS :
    ( /\ IsGet(c)
      /\ obs[c].n = 1
      /\ obs[c].reset_idle
      /\ obs[c].nsw = 1
      /\ obs[c].sw_at > obs[c].reset_at
      /\ last.now > obs[c].sw_at )
    => /\ last.idle = obs[c].sw_at - obs[c].reset_at
       /\ last.run = last.now - obs[c].sw_at

\* idle from t0 = 0, busy from t1 = 1, read at t2 = 3
C4_Witness ==
  \E c \in CPUS :
    /\ IsGet(c)
    /\ obs[c].n = 1
    /\ obs[c].reset_idle
    /\ obs[c].nsw = 1
    /\ obs[c].reset_at = 0
    /\ obs[c].sw_at = 1
    /\ last.now = 3

\* C5: a reset at clock value r leaves both accumulators 0 and both marks r;
\* the next read of the CPU, at t >= r with no switch since the reset,
\* returns t - r as the total of the state the CPU is in and 0 as the other.
C5_ResetWindow ==
  \A c \in CPUS :
    /\ IsReset(c) => /\ idletime[c] = 0
                     /\ runtime[c] = 0
                     /\ idlestart[c] = last.now
                     /\ idlestop[c] = last.now
                     /\ last.now = cpu_clock(c)
    /\ (IsGet(c) /\ obs[c].by_reset /\ obs[c].n = 1 /\ obs[c].nsw = 0) =>
         /\ last.idle = IF curr_idle[c] THEN last.now - obs[c].reset_at ELSE 0
         /\ last.run = IF curr_idle[c] THEN 0 ELSE last.now - obs[c].reset_at

\* a reset of a cell that held time, then a read after the clock advanced
C5_Witness ==
  \E c \in CPUS :
    /\ IsGet(c)
    /\ obs[c].by_reset
    /\ obs[c].dirty
    /\ obs[c].n = 1
    /\ obs[c].nsw = 0
    /\ obs[c].reset_at > 0
    /\ last.now > obs[c].reset_at

\* what a read of /proc/idleruntime/cpuN/data would return in this state
ReadCoreIdle == [c \in CPUS |-> get_idletime(c)]
ReadCoreRun == [c \in CPUS |-> get_runtime(c)]

\* C6: when a read of the "all" file ran without any other step in between,
\* its totals equal the sums of what reads of the per-CPU files of all CPUs
\* that have one return with the clocks where they are.
C6_AggregateConsistency ==
  (last.op = "show_all" /\ scan_show.clean) =>
    /\ scan_show.total_idletime
         = SumOver({c \in CPUS : Exposed(c)}, ReadCoreIdle)
    /\ scan_show.total_runtime
         = SumOver({c \in CPUS : Exposed(c)}, ReadCoreRun)

\* C7: a CPU that never came up, or went down and has not come up again, has
\* no /proc files: a read or reset of them fails and changes no cell; the
\* files of a CPU appear only by CPU_ONLINE and disappear only by CPU_DEAD
\* of that CPU.
C7_ReadAfterLeaveFails ==
  [][\A c \in CPUS :
       /\ ~joined'[c] => (~Exposed(c)' /\ idleruntime_dir'[c] = NULL)
       /\ (last'.op \in {"show", "reset"} /\ last'.cpu = c /\ ~joined[c]) =>
            (~last'.ok /\ UNCHANGED cellvars)
       /\ (Exposed(c) /\ ~Exposed(c)') => (last'.op = "dead" /\ last'.cpu = c)
       /\ (~Exposed(c) /\ Exposed(c)') => (last'.op = "online" /\ last'.cpu = c)
    ]_vars

\* a read that failed for a CPU whose files were removed when it went down
C7_Witness ==
  /\ last.op = "show"
  /\ ~last.ok
  /\ ever_left[last.cpu]
  /\ ~joined[last.cpu]

C9_DuplicateJoin ==
  [][\A c \in CPUS :
       ( /\ last'.op = "online"
         /\ last'.cpu = c
         /\ joined[c]
         /\ idleruntime_dir[c] # NULL )
       => /\ idleruntime_dir'[c] = idleruntime_dir[c]
          /\ proc_subdir' = proc_subdir
          /\ UNCHANGED cellvars
    ]_vars

\* C10: CPU_DEAD for a CPU that never came up or has already gone down
\* changes neither a handle, nor the registered directories, nor a cell.
C10_LeaveIdempotent ==
  [][\A c \in CPUS :
       (last'.op = "dead" /\ last'.cpu = c /\ ~joined[c]) =>
         (~last'.ok /\ UNCHANGED <<procvars, cellvars>>)
    ]_vars

\* a second CPU_DEAD for a CPU whose files the first one removed
C10_Witness ==
  /\ last.op = "dead"
  /\ ~last.ok
  /\ ever_left[last.cpu]
  /\ ~joined[last.cpu]

\* the mark idleruntime_get measures from: idlestart while the CPU runs its
\* idle task, idlestop otherwise
MarkOf(cpu) == IF curr_idle[cpu] THEN idlestart[cpu] ELSE idlestop[cpu]

\* C12: a read that samples a clock value below the mark it measures from
\* leaves the accumulators as they were.
C12_DefensiveClamp ==
  [][\A c \in CPUS :
       (IsGet(c)' /\ cpu_clock(c) < MarkOf(c)) =>
         (idletime'[c] = idletime[c] /\ runtime'[c] = runtime[c])
    ]_vars

\* C14: right after a read of a CPU both of its marks equal the clock value
\* the read sampled.
C14_MarksAdvance ==
  \A c \in CPUS :
    IsGet(c) => (idlestart[c] = last.now /\ idlestop[c] = last.now)

\* C15: a read while the CPU runs its idle task adds now - idlestart to
\* idletime and leaves runtime; a read while it runs another task adds
\* now - idlestop to runtime and leaves idletime.
C15_CurrentIntervalOnly ==
  [][\A c \in CPUS :
       IsGet(c)' =>
         IF curr_idle[c]
           THEN /\ idletime'[c] = idletime[c] + (cpu_clock(c) - idlestart[c])
                /\ runtime'[c] = runtime[c]
           ELSE /\ runtime'[c] = runtime[c] + (cpu_clock(c) - idlestop[c])
                /\ idletime'[c] = idletime[c]
    ]_vars

\* a read of an idle CPU that added time to idletime and left a runtime
\* that is not 0
C15_Witness ==
  \E c \in CPUS :
    /\ IsGet(c)
    /\ curr_idle[c]
    /\ last.now > idlestart[c]
    /\ last.idle > 0
    /\ runtime[c] > 0

\* every possible CPU has the per-CPU variables of a cell
HasCell(cpu) == cpu \in CPUS

C17_ResetAllResetsAll ==
  (last.op = "reset_all" /\ scan_reset.clean) =>
    /\ \A c \in cpu_present_mask :
         /\ idletime[c] = 0
         /\ runtime[c] = 0
         /\ idlestart[c] = cpu_clock(c)
         /\ idlestop[c] = cpu_clock(c)
    /\ SumOver(cpu_present_mask, ReadCoreIdle) = 0
    /\ SumOver(cpu_present_mask, ReadCoreRun) = 0

\* a reset of all CPUs, one of which held time and has a clock above 0
C17_Witness ==
  /\ last.op = "reset_all"
  /\ scan_reset.clean
  /\ \E c \in CPUS : obs[c].dirty /\ cpu_clock(c) > 0

\* C19: a read or reset of the /proc files of one CPU changes no field of
\* another CPU's cell, no handle, no registered directory and no CPU's
\* membership.
C19_PerCoreIsolation ==
  [][\A c \in CPUS :
       (last'.op \in {"show", "reset"} /\ last'.cpu = c) =>
         /\ \A d \in CPUS \ {c} :
              /\ idletime'[d] = idletime[d]
              /\ runtime'[d] = runtime[d]
              /\ idlestart'[d] = idlestart[d]
              /\ idlestop'[d] = idlestop[d]
         /\ UNCHANGED <<procvars, joined, cpu_online>>
    ]_vars

\* a reset of one CPU while another CPU's cell holds time
C19_Witness ==
  /\ last.op = "reset"
  /\ last.ok
  /\ \E d \in CPUS \ {last.cpu} : idletime[d] + runtime[d] > 0

ShowAllOps == {"show_all_cpu", "show_all"}

ResetAllOps == {"reset_all_cpu", "reset_all"}

\* C16: a loop over the CPUs for the "all" files visits exactly the CPUs
\* that were members when it started: every CPU it visits was a member
\* then, and when the loop ends every such member has been visited.
C16_AggregateMembership ==
  [][/\ last'.op \in ShowAllOps => last'.cpu \in scan_show'.members
     /\ last'.op \in ResetAllOps => last'.cpu \in scan_reset'.members
     /\ last'.op = "show_all" => scan_show'.visited = scan_show'.members
     /\ last'.op = "reset_all" => scan_reset'.visited = scan_reset'.members
    ]_vars

\* the positions of a thread between taking and releasing the lock
InSection == {"update", "out_idle", "out_run", "body", "unlock"}

\* C11: reads and resets of a cell take effect one after the other, and
\* the pair a read returns is the cell's pair in its own critical
\* section: at most one thread holds a lock, a thread inside a critical
\* section holds the lock of its CPU, and what it has copied out still
\* equals the cell until it unlocks.
C11_NoTornReads ==
  /\ \A c \in CPUS : Cardinality(idleruntime_lock[c]) <= 1
  /\ \A t \in Threads :
       LET th == thread[t]
       IN  /\ th.pc \in InSection => t \in idleruntime_lock[th.cpu]
           /\ (th.op \in ReadOps /\ th.pc \in {"out_run", "unlock"}) =>
                th.idletime = idletime[th.cpu]
           /\ (th.op \in ReadOps /\ th.pc = "unlock") =>
                th.runtime = runtime[th.cpu]

\* a read has copied out a pair that is not (0, 0) while a reset of the
\* same cell waits for the lock
C11_Witness ==
  \E t, u \in Threads :
    /\ thread[t].op \in ReadOps
    /\ thread[t].pc = "unlock"
    /\ thread[t].idletime + thread[t].runtime > 0
    /\ thread[u].op \in {"reset", "reset_all"}
    /\ thread[u].pc = "lock"
    /\ thread[u].cpu = thread[t].cpu

\* C18: at most one thread holds a lock, and a step that changes a field
\* of a cell, in idleruntime_init too, is taken while the cell's lock is
\* held.
C18_LockDiscipline ==
  [][\A c \in CPUS :
       /\ Cardinality(idleruntime_lock[c]) <= 1
       /\ (\/ idlestart'[c] # idlestart[c]
           \/ idlestop'[c] # idlestop[c]
           \/ idletime'[c] # idletime[c]
           \/ runtime'[c] # runtime[c]) => idleruntime_lock[c] # {}
    ]_vars

\* the positions of a thread outside the handlers
Outside == {"idle", "returned"}

\* the locks a thread holds
Held(t) == {c \in CPUS : t \in idleruntime_lock[c]}

\* C20: no thread holds more than one lock, a thread outside the handlers
\* holds none, all locks are free when no handler runs, and every call of
\* a handler returns.
C20_DeadlockFreedom ==
  /\ [](\A t \in Threads :
          /\ Cardinality(Held(t)) <= 1
          /\ thread[t].pc \in Outside => Held(t) = {})
  /\ []((\A t \in Threads : thread[t].pc \in Outside) =>
          (\A c \in CPUS : idleruntime_lock[c] = {}))
  /\ \A t \in Threads :
       (thread[t].pc \notin Outside) ~> (thread[t].pc = "returned")

\* a loop over all CPUs waits for a lock that another loop over all CPUs
\* holds
C20_Witness ==
  \E t, u \in Threads :
    /\ thread[t].op \in {"show_all", "reset_all"}
    /\ thread[t].pc = "lock"
    /\ thread[u].op \in {"show_all", "reset_all"}
    /\ u \in idleruntime_lock[thread[t].cpu]
    /\ thread[t].cpu > 0

====
